---- MODULE Spec2Model ----
(***************************************************************************)
(* A model of pi_atecc.c: the ATECC608A command/response driver and its    *)
(* demonstration sequence (main).  One action is one bus transaction (one  *)
(* ioctl(I2C_RDWR)) together with the code that runs up to the next one.   *)
(* C arrays are 0-based, sequences here are 1-based: C index i is i + 1.   *)
(***************************************************************************)
EXTENDS Integers, Sequences, FiniteSets, TLC

VARIABLES
    mpc,      \* main's position: the call it is at, or "exit0"/"exit1"; "test" for a single call
    op,       \* the library function that is running or has last returned ("none": none yet)
    opc,      \* the position inside that function, "done" once it has returned
    args,     \* the arguments of the running function
    bus,      \* the I2C transactions the running (or last) call has issued, in order
    resp,     \* the buffer the last read filled (response / raw)
    io,       \* outcome of the last ioctl: "ok" or the errno it failed with
    idx,      \* loop counter of the running function (block, offset)
    buf,      \* local assembly buffer of the running function (serial, config_data, resp)
    out,      \* the caller's output buffer handed to the running function
    ret,      \* return value of the last finished function: "none", "true", "false"
    mem,      \* main's local buffers
    console,  \* the payload lines the running (or last) call has printed
    faults,   \* number of abnormal reads the environment has produced in this call
    dev,      \* the device on the bus: which contents it holds
    session   \* "Asleep"; "Awake" once atecc_wake has returned true, "Faulted" once it
              \* has returned false; "Asleep" again when atecc_sleep writes its byte

vars == <<mpc, op, opc, args, bus, resp, io, idx, buf, out, ret, mem, console, faults, dev,
          session>>

(***************************************************************************)
(* Bounds of the model.                                                    *)
(***************************************************************************)
MaxFaults == 1
MaxDataLen == 130
MaxSeed == 4
MaxPattern == 1
MaxCrcLen == 12
MaxPayload == 4
MaxRecvLen == 129

(***************************************************************************)
(* Program constants (pi_atecc.h, appended to the source file).            *)
(***************************************************************************)
ATECC_CMD_SIZE == 128
ATECC_RESPONSE_SIZE == 128
ATECC_WAKE_TOKEN == 0
ATECC_CMD_SLEEP == 1
ATECC_CMD_READ == 2
ATECC_CMD_RANDOM == 27
ATECC_CMD_SHA == 71
ATECC_CMD_AES == 81
ATECC_STATUS_SUCCESS == 0
ATECC_STATUS_WAKE == 17
ATECC_SERIAL_NUMBER_SIZE == 9
ATECC_WORDADDR_CMD == 3
AES_BLOCK_SIZE == 16
AES_RESPONSE_SIZE == 19
SHA_RESPONSE_SIZE == 35
SHA_BLOCK == 64
RAW_SIZE == 7
CONFIG_SIZE == 128
BYTES_PER_BLOCK == 4
BLOCK_COUNT == 32
LOCK_ADDRESS == 21

Byte == 0..255
Zeros(n) == [i \in 1..n |-> 0]
Min(a, b) == IF a < b THEN a ELSE b

(***************************************************************************)
(* crc_register ^= polynom, polynom = 0x8005 = 2^15 + 2^2 + 2^0: the bits  *)
(* 15, 2 and 0 of the register change.                                     *)
(***************************************************************************)
FlipBit(x, k) == IF (x \div (2 ^ k)) % 2 = 1 THEN x - (2 ^ k) ELSE x + (2 ^ k)

\* the polynomial 0x1021 in place of 0x8005
XorPolynom1021(x) == FlipBit(FlipBit(FlipBit(x, 12), 5), 0)

XorPolynom(x) == FlipBit(FlipBit(FlipBit(x, 15), 2), 0)

(***************************************************************************)
(* calc_crc16_ccitt: one pass of the inner loop for bit k (shift_register  *)
(* = 2^k, k = 0..7), then the loop over the bits, then over the bytes.     *)
(***************************************************************************)
CrcBit(crc, byte, k) ==
    LET data_bit == (byte \div (2 ^ k)) % 2
        crc_bit == crc \div 32768
        shifted == (crc * 2) % 65536
    IN IF data_bit # crc_bit THEN XorPolynom(shifted) ELSE shifted

\* the register after the passes for bits 0..k-1 of one byte
CrcPasses[crc \in 0..65535, byte \in Byte, k \in 0..8] ==
    IF k = 0 THEN crc ELSE CrcBit(CrcPasses[crc, byte, k - 1], byte, k - 1)

CrcByte(crc, byte) == CrcPasses[crc, byte, 8]

\* crc_register after the first `length` bytes of data: the loop over the bytes
\* lo..hi started from crc, split in halves (run[c, lo, hi] with lo > hi is c)
CrcRegister(data, length) ==
    LET run[crc \in 0..65535, lo \in 1..(length + 1), hi \in 0..length] ==
            IF lo > hi THEN crc
            ELSE IF lo = hi THEN CrcByte(crc, data[lo])
            ELSE run[run[crc, lo, (lo + hi) \div 2], ((lo + hi) \div 2) + 1, hi]
    IN run[0, 1, length]

\* crc_le[0], crc_le[1] of the first `length` bytes of data
calc_crc16_ccitt(length, data) ==
    LET r == CrcRegister(data, length)
    IN <<r % 256, r \div 256>>

\* the CRC bytes in big-endian order
compute_crc_big_endian(length, data) ==
    LET c == calc_crc16_ccitt(length % 256, data) IN <<c[2], c[1]>>

compute_crc(length, data) == calc_crc16_ccitt(length % 256, data)

validate_crc(response, length) ==
    IF length < 3 THEN FALSE
    ELSE LET c == compute_crc(length - 2, response)
         IN c[1] = response[length - 1] /\ c[2] = response[length]

\* a frame with param2 high byte first
send_atecc_cmd_param2_be(opcode, param1, param2, payload, data_len, data_null) ==
    IF data_len > ATECC_CMD_SIZE - 7 THEN [valid |-> FALSE, frame |-> <<>>]
    ELSE IF data_len > 0 /\ data_null THEN [valid |-> FALSE, frame |-> <<>>]
    ELSE LET header == <<(7 + data_len) % 256, opcode, param1,
                         (param2 \div 256) % 256, param2 % 256>>
             body == header \o SubSeq(payload, 1, data_len)
             command == body \o calc_crc16_ccitt(5 + data_len, body)
         IN [valid |-> TRUE, frame |-> <<ATECC_WORDADDR_CMD>> \o command]

(***************************************************************************)
(* send_atecc_cmd up to its ioctl: the argument checks and the bytes of    *)
(* full_command.  data_null says that the data pointer is NULL.            *)
(***************************************************************************)
send_atecc_cmd(opcode, param1, param2, payload, data_len, data_null) ==
    IF data_len > ATECC_CMD_SIZE - 7 THEN [valid |-> FALSE, frame |-> <<>>]
    ELSE IF data_len > 0 /\ data_null THEN [valid |-> FALSE, frame |-> <<>>]
    ELSE LET header == <<(7 + data_len) % 256, opcode, param1,
                         param2 % 256, (param2 \div 256) % 256>>
             body == header \o SubSeq(payload, 1, data_len)
             command == body \o calc_crc16_ccitt(5 + data_len, body)
         IN [valid |-> TRUE, frame |-> <<ATECC_WORDADDR_CMD>> \o command]

(***************************************************************************)
(* The transport (ioctl I2C_RDWR).  A write or read either succeeds or     *)
(* fails with an errno; a failed read leaves the zero-initialised buffer   *)
(* as it was.                                                              *)
(***************************************************************************)
IoOutcome == {"ok", "EIO", "EREMOTEIO", "ENXIO"}
Tolerated(o) == o = "ok" \/ o = "EIO" \/ o = "EREMOTEIO"

Wr(bytes) == [kind |-> "w", data |-> bytes]
Rd(bytes) == [kind |-> "r", data |-> bytes]

IsCmdFrame(t) == t.kind = "w" /\ Len(t.data) >= 8 /\ t.data[1] = ATECC_WORDADDR_CMD
IsWakeToken(t) == t.kind = "w" /\ t.data = <<ATECC_WAKE_TOKEN>>
IsSleepByte(t) == t.kind = "w" /\ t.data = <<ATECC_CMD_SLEEP>>
IsRead(t) == t.kind = "r"

\* fields of a command frame on the bus (after the word-address byte)
FrameOpcode(t) == t.data[3]
FrameParam1(t) == t.data[4]
FrameParam2(t) == t.data[5] + 256 * t.data[6]
FramePayload(t) == SubSeq(t.data, 7, Len(t.data) - 2)

(***************************************************************************)
(* The device.  What it answers depends on the last command frame it got.  *)
(* A response is count, payload, CRC over both.                            *)
(***************************************************************************)
Framed(payload) ==
    LET body == <<Len(payload) + 3>> \o payload
    IN body \o calc_crc16_ccitt(Len(body), body)

\* the first n bytes of what the device drives on the bus (0 once it has no more)
Clip(r, n) == [i \in 1..n |-> IF i <= Len(r) THEN r[i] ELSE 0]

ConfigWord(addr, seed) == [j \in 1..4 |-> (16 * addr + j + 64 * seed) % 256]
LockWords == <<<<0, 0, 0, 0>>, <<85, 85, 0, 0>>, <<0, 85, 0, 0>>, <<85, 0, 0, 0>>, <<18, 52, 0, 0>>>>
LockWord(seed) == LockWords[(seed % Len(LockWords)) + 1]
RandomBytes(seed) == [j \in 1..32 |-> (37 * j + 101 * seed + 5) % 256]
Digest(seed) == [j \in 1..32 |-> (11 * j + 77 * seed + 3) % 256]

DemoPlaintext == <<72, 101, 108, 108, 111, 44, 32, 65, 69, 83, 33, 0, 0, 0, 0, 0>>
DemoCiphertext == <<7, 150, 148, 166, 158, 166, 87, 232, 67, 217, 74, 96, 52, 211, 56, 21>>

AesTransform(mode, key, in) ==
    IF mode = 0 /\ in = DemoPlaintext THEN DemoCiphertext
    ELSE IF mode = 1 /\ in = DemoCiphertext THEN DemoPlaintext
    ELSE IF mode = 0 THEN [j \in 1..16 |-> (in[j] + 16 * key + j) % 256]
    ELSE [j \in 1..16 |-> (in[j] + 256 - ((16 * key + j) % 256)) % 256]

LastCmd(b) ==
    LET S == {i \in 1..Len(b) : IsCmdFrame(b[i])}
    IN IF S = {} THEN Wr(<<ATECC_WORDADDR_CMD, 7, 0, 0, 0, 0, 0, 0>>)
       ELSE b[CHOOSE i \in S : \A j \in S : j <= i]

\* the payloads the device may answer the command c with
DevPayloads(c) ==
    IF FrameOpcode(c) = ATECC_CMD_READ
    THEN IF FrameParam2(c) = LOCK_ADDRESS THEN {LockWord(dev)}
         ELSE {ConfigWord(FrameParam2(c), dev)}
    ELSE IF FrameOpcode(c) = ATECC_CMD_RANDOM THEN {RandomBytes(dev)}
    ELSE IF FrameOpcode(c) = ATECC_CMD_SHA THEN {Digest(dev)}
    ELSE {AesTransform(FrameParam1(c), FrameParam2(c), FramePayload(c))}

CorruptCrc(r) == [r EXCEPT ![Len(r)] = (r[Len(r)] + 1) % 256]
StatusCodes == {0, 15}

\* a response whose count byte claims more bytes than any response buffer holds
Oversized(r) == [r EXCEPT ![1] = 200]

\* abnormal answers: a status packet, a corrupted CRC, a shorter or a longer packet,
\* a packet with an oversized count
BadResponses(p) ==
    {Framed(<<s>>) : s \in StatusCodes}
    \cup {CorruptCrc(Framed(p)), Framed(SubSeq(p, 1, Len(p) - 2)), Framed(p \o <<170>>),
          Oversized(Framed(p))}

\* what one read of n bytes can give: [io, data, fault]
ReadOutcomes(b, n) ==
    LET P == DevPayloads(LastCmd(b))
    IN {[io |-> "ok", data |-> Clip(Framed(p), n), fault |-> 0] : p \in P}
       \cup {[io |-> "ok", data |-> Clip(r, n), fault |-> 1] :
                r \in UNION {BadResponses(p) : p \in {CHOOSE q \in P : TRUE}}}
       \cup {[io |-> o, data |-> Zeros(n), fault |-> 1] : o \in IoOutcome \ {"ok"}}

WakeResponse == <<4, ATECC_STATUS_WAKE, 51, 67>>
WakeOutcomes ==
    {[io |-> "ok", data |-> WakeResponse, fault |-> 0]}
    \cup {[io |-> "ok", data |-> r, fault |-> 1] :
             r \in {<<4, 1, 0, 0>>, <<0, 0, 0, 0>>, <<7, ATECC_STATUS_WAKE, 51, 67>>}}
    \cup {[io |-> o, data |-> Zeros(4), fault |-> 1] : o \in IoOutcome \ {"ok"}}

(***************************************************************************)
(* receive_atecc_response after its ioctl: e is the read's outcome, the    *)
(* result is the return value and the bytes copied to the caller's buffer. *)
(***************************************************************************)
ReadLength(length, full_response) ==
    Min(IF full_response THEN length + 3 ELSE length + 1, ATECC_RESPONSE_SIZE)

ResponseAt(data, i) == IF i < Len(data) THEN data[i + 1] ELSE 0

Available(count) == count - 1

\* a receive_atecc_response that has no branch for count == 4
receive_atecc_response_no_status(e, length) ==
    LET count == ResponseAt(e.data, 0)
    IN IF ~Tolerated(e.io)
       THEN [ok |-> FALSE, class |-> "transport", status |-> 0, payload |-> <<>>]
       ELSE IF count < 4
            THEN [ok |-> FALSE, class |-> "count", status |-> 0, payload |-> <<>>]
       ELSE IF Available(count) < length
            THEN [ok |-> FALSE, class |-> "short", status |-> 0, payload |-> <<>>]
       ELSE [ok |-> TRUE, class |-> "data", status |-> 0,
             payload |-> [i \in 1..length |-> ResponseAt(e.data, i)]]

\* class and status are the diagnostic written to stderr; payload is what
\* memcpy(buffer, &response[1], length) takes from the bytes of response[]
\* (the array is 128 bytes: see ReceiveCall for an index beyond it)
receive_atecc_response(e, length) ==
    LET count == ResponseAt(e.data, 0)
    IN IF ~Tolerated(e.io)
       THEN [ok |-> FALSE, class |-> "transport", status |-> 0, payload |-> <<>>]
       ELSE IF count < 4
            THEN [ok |-> FALSE, class |-> "count", status |-> 0, payload |-> <<>>]
       ELSE IF count = 4
            THEN IF ResponseAt(e.data, 1) # ATECC_STATUS_SUCCESS
                 THEN [ok |-> FALSE, class |-> "status",
                       status |-> ResponseAt(e.data, 1), payload |-> <<>>]
                 ELSE [ok |-> FALSE, class |-> "nodata", status |-> 0, payload |-> <<>>]
       ELSE IF Available(count) < length
            THEN [ok |-> FALSE, class |-> "short", status |-> 0, payload |-> <<>>]
       ELSE [ok |-> TRUE, class |-> "data", status |-> 0,
             payload |-> [i \in 1..length |-> ResponseAt(e.data, i)]]

(***************************************************************************)
(* Control: returning from the running function, or moving on inside it.   *)
(***************************************************************************)
Return(v) == op' = op /\ opc' = "done" /\ ret' = v
Goto(l) == op' = op /\ opc' = l /\ ret' = ret

\* send_atecc_cmd as a step: c is the frame it built (or its refusal)
TransmitCarryOn(c, next) ==
    IF ~c.valid
    THEN io' = "EINVAL" /\ bus' = bus /\ Return("false")
    ELSE \E o \in IoOutcome :
            /\ io' = o
            /\ bus' = Append(bus, Wr(c.frame))
            /\ Goto(next)

Transmit(c, next) ==
    IF ~c.valid
    THEN io' = "EINVAL" /\ bus' = bus /\ Return("false")
    ELSE \E o \in IoOutcome :
            /\ io' = o
            /\ bus' = Append(bus, Wr(c.frame))
            /\ IF Tolerated(o) THEN Goto(next) ELSE Return("false")

\* one read ioctl with outcome e
Receive(e) ==
    /\ faults + e.fault <= MaxFaults
    /\ faults' = faults + e.fault
    /\ bus' = Append(bus, Rd(e.data))
    /\ resp' = e.data
    /\ io' = e.io

Emit(tag, value) == console' = Append(console, [tag |-> tag, value |-> value])

Splice(b, at, bytes) ==
    [i \in 1..Len(b) |-> IF i > at /\ i <= at + Len(bytes) THEN bytes[i - at] ELSE b[i]]

(***************************************************************************)
(* atecc_wake                                                              *)
(***************************************************************************)
WakeAcceptsStatusOnly(r) == r[2] = ATECC_STATUS_WAKE

WakeAccepts(r) == ~(r[1] # 4 \/ r[2] # ATECC_STATUS_WAKE)

WakeWrite ==
    /\ op = "atecc_wake" /\ opc = "write"
    /\ \E o \in IoOutcome :
          /\ io' = o
          /\ bus' = Append(bus, Wr(<<ATECC_WAKE_TOKEN>>))
          /\ IF Tolerated(o)
             THEN Goto("read") /\ UNCHANGED session
             ELSE Return("false") /\ session' = "Faulted"
    /\ UNCHANGED <<mpc, args, resp, idx, buf, out, mem, console, faults, dev>>

WakeRead ==
    /\ op = "atecc_wake" /\ opc = "read"
    /\ \E e \in WakeOutcomes :
          /\ Receive(e)
          /\ IF e.io # "ok" THEN Return("false") /\ session' = "Faulted"
             ELSE IF ~WakeAccepts(e.data) THEN Return("false") /\ session' = "Faulted"
             ELSE Return("true") /\ session' = "Awake"
    /\ UNCHANGED <<mpc, args, idx, buf, out, mem, console, dev>>

(***************************************************************************)
(* atecc_sleep                                                             *)
(***************************************************************************)
SleepWrite ==
    /\ op = "atecc_sleep" /\ opc = "write"
    /\ \E o \in IoOutcome :
          /\ io' = o
          /\ bus' = Append(bus, Wr(<<ATECC_CMD_SLEEP>>))
          /\ IF o # "ok" THEN Return("false") ELSE Return("true")
    /\ session' = "Asleep"
    /\ UNCHANGED <<mpc, args, resp, idx, buf, out, mem, console, faults, dev>>

(***************************************************************************)
(* read_atecc_serial_number: idx counts the three reads, buf is serial[].  *)
(***************************************************************************)
SerialAddr(k) == <<0, 2, 3>>[k + 1]

SerialSend ==
    /\ op = "read_atecc_serial_number" /\ opc = "send"
    /\ IF idx = 0 /\ args.serial_null
       THEN io' = "EINVAL" /\ bus' = bus /\ Return("false")
       ELSE Transmit(send_atecc_cmd(ATECC_CMD_READ, 0, SerialAddr(idx), <<>>, 0, TRUE), "recv")
    /\ UNCHANGED <<mpc, args, resp, idx, buf, out, mem, console, faults, dev, session>>

SerialRecv ==
    /\ op = "read_atecc_serial_number" /\ opc = "recv"
    /\ \E e \in ReadOutcomes(bus, ReadLength(4, TRUE)) :
          /\ Receive(e)
          /\ LET r == receive_atecc_response(e, 4)
                 serial == IF idx < 2 THEN Splice(buf, 4 * idx, r.payload)
                           ELSE Splice(buf, 8, <<r.payload[1]>>)
             IN IF ~r.ok
                THEN Return("false") /\ UNCHANGED <<idx, buf, out, console>>
                ELSE IF idx < 2
                THEN /\ Goto("send")
                     /\ idx' = idx + 1
                     /\ buf' = serial
                     /\ UNCHANGED <<out, console>>
                ELSE /\ Return("true")
                     /\ buf' = serial
                     /\ Emit("serial", serial)
                     /\ UNCHANGED <<idx, out>>
    /\ UNCHANGED <<mpc, args, mem, dev, session>>

(***************************************************************************)
(* map_random_to_range and genrate_random_number_in_range.                 *)
(* The 64-bit value is reduced bit by bit, most significant first, which   *)
(* equals random_value % m for 0 < m.                                      *)
(***************************************************************************)
\* a uint64_t is a sequence of 8 bytes, most significant first
U64(n) == [i \in 1..8 |-> IF i <= 4 THEN 0 ELSE (n \div (256 ^ (8 - i))) % 256]
Zero64 == U64(0)
Max64 == [i \in 1..8 |-> 255]

RECURSIVE Borrow64(_, _, _)
Borrow64(a, b, i) ==
    IF i > 8 THEN 0 ELSE IF a[i] - b[i] - Borrow64(a, b, i + 1) < 0 THEN 1 ELSE 0

RECURSIVE Carry64(_, _, _)
Carry64(a, b, i) ==
    IF i > 8 THEN 0 ELSE IF a[i] + b[i] + Carry64(a, b, i + 1) > 255 THEN 1 ELSE 0

\* a - b, a + b and a < b in uint64_t
Sub64(a, b) == [i \in 1..8 |-> (a[i] - b[i] - Borrow64(a, b, i + 1) + 256) % 256]
Add64(a, b) == [i \in 1..8 |-> (a[i] + b[i] + Carry64(a, b, i + 1)) % 256]
Less64(a, b) == Borrow64(a, b, 1) = 1

\* random_value = (random_value << 8) | random_bytes[i], i = 0..7
BigEndian64(random_bytes) == [i \in 1..8 |-> random_bytes[i]]

\* v % m for m # 0, by long division over the 64 bits of v
ModStep(r, bit, m) ==
    LET s == [i \in 1..8 |-> (2 * r[i] + (IF i = 8 THEN bit ELSE r[i + 1] \div 128)) % 256]
    IN IF r[1] >= 128 \/ ~Less64(s, m) THEN Sub64(s, m) ELSE s

ModBigEndian(bytes, m) ==
    LET v == BigEndian64(bytes)
        bit(i) == (v[((i - 1) \div 8) + 1] \div (2 ^ (7 - ((i - 1) % 8)))) % 2
        run[acc \in [1..8 -> Byte], lo \in 1..65, hi \in 0..64] ==
            IF lo > hi THEN acc
            ELSE IF lo = hi THEN ModStep(acc, bit(lo), m)
            ELSE run[run[acc, lo, (lo + hi) \div 2], ((lo + hi) \div 2) + 1, hi]
    IN run[Zero64, 1, 64]

\* The outcomes of min + (random_value % (max - min + 1)).  When max - min + 1
\* wraps to 0 the remainder is a division by zero: the process is killed by
\* SIGFPE, or the remainder instruction yields the dividend.
map_random_to_range(random_bytes, min, max) ==
    LET m == Add64(Sub64(max, min), U64(1))
    IN IF m = Zero64
       THEN {[trap |-> TRUE, value |-> Zero64],
             [trap |-> FALSE, value |-> Add64(min, BigEndian64(random_bytes))]}
       ELSE {[trap |-> FALSE, value |-> Add64(min, ModBigEndian(random_bytes, m))]}

RangeSend ==
    /\ op = "genrate_random_number_in_range" /\ opc = "send"
    /\ Transmit(send_atecc_cmd(ATECC_CMD_RANDOM, 0, 0, <<>>, 0, TRUE), "recv")
    /\ UNCHANGED <<mpc, args, resp, idx, buf, out, mem, console, faults, dev, session>>

RangeRecv ==
    /\ op = "genrate_random_number_in_range" /\ opc = "recv"
    /\ \E e \in ReadOutcomes(bus, ReadLength(32, TRUE)) :
          /\ Receive(e)
          /\ LET r == receive_atecc_response(e, 32)
             IN IF ~r.ok
                THEN Return("false") /\ UNCHANGED <<buf, console>>
                ELSE \E x \in map_random_to_range(SubSeq(r.payload, 2, 9),
                                                   args.min, args.max) :
                        /\ buf' = r.payload
                        /\ IF x.trap
                           THEN Return("SIGFPE") /\ UNCHANGED console
                           ELSE Return("true") /\ Emit("range", x.value)
    /\ UNCHANGED <<mpc, args, idx, out, mem, dev, session>>

(***************************************************************************)
(* generate_random_value                                                   *)
(***************************************************************************)
ValueSend ==
    /\ op = "generate_random_value" /\ opc = "send"
    /\ IF args.length > 32 - 1
       THEN io' = "EINVAL" /\ bus' = bus /\ Return("false")
       ELSE Transmit(send_atecc_cmd(ATECC_CMD_RANDOM, 0, 0, <<>>, 0, TRUE), "recv")
    /\ UNCHANGED <<mpc, args, resp, idx, buf, out, mem, console, faults, dev, session>>

ValueRecv ==
    /\ op = "generate_random_value" /\ opc = "recv"
    /\ IF args.length = 0
       THEN /\ io' = "EINVAL" /\ Return("false")
            /\ UNCHANGED <<bus, resp, faults, buf, console>>
       ELSE \E e \in ReadOutcomes(bus, ReadLength(args.length, TRUE)) :
               /\ Receive(e)
               /\ LET r == receive_atecc_response(e, args.length)
                  IN IF ~r.ok
                     THEN Return("false") /\ UNCHANGED <<buf, console>>
                     ELSE /\ Return("true")
                          /\ buf' = r.payload
                          /\ Emit("random", r.payload)
    /\ UNCHANGED <<mpc, args, idx, out, mem, dev, session>>

(***************************************************************************)
(* compute_sha256: idx is offset.                                          *)
(***************************************************************************)
\* a chunking that always starts at the head of the input
ShaChunkFromStart(data, offset, n) == SubSeq(data, 1, n)

ShaChunk(data, offset, n) == SubSeq(data, offset + 1, offset + n)

ShaStart ==
    /\ op = "compute_sha256" /\ opc = "start"
    /\ IF args.output_null \/ (args.data_null /\ args.data_len # 0)
       THEN io' = "EINVAL" /\ bus' = bus /\ Return("false")
       ELSE Transmit(send_atecc_cmd(ATECC_CMD_SHA, 0, 0, <<>>, 0, TRUE), "loop")
    /\ idx' = 0
    /\ UNCHANGED <<mpc, args, resp, buf, out, mem, console, faults, dev, session>>

\* one evaluation of the while condition and the send that follows it:
\* an update frame, or after the loop the end frame
ShaLoop ==
    /\ op = "compute_sha256" /\ opc = "loop"
    /\ IF args.data_len - idx >= SHA_BLOCK
       THEN /\ Transmit(send_atecc_cmd(ATECC_CMD_SHA, 1, 0,
                                       ShaChunk(args.data, idx, SHA_BLOCK), SHA_BLOCK, FALSE),
                        "loop")
            /\ idx' = idx + SHA_BLOCK
       ELSE /\ LET remaining == (args.data_len - idx) % 256
               IN Transmit(send_atecc_cmd(ATECC_CMD_SHA, 2, remaining,
                                          ShaChunk(args.data, idx, remaining), remaining,
                                          ~(remaining > 0)), "read")
            /\ idx' = idx
    /\ UNCHANGED <<mpc, args, resp, buf, out, mem, console, faults, dev, session>>

\* a count check that only bounds the count by the buffer
ShaCountInBuffer(count) == ~(count > SHA_RESPONSE_SIZE \/ count < 3)

ShaCountOk(count) == ~(count # SHA_RESPONSE_SIZE \/ count > SHA_RESPONSE_SIZE \/ count < 3)

ShaRead ==
    /\ op = "compute_sha256" /\ opc = "read"
    /\ \E e \in ReadOutcomes(bus, SHA_RESPONSE_SIZE) :
          /\ Receive(e)
          /\ LET count == e.data[1]
             IN IF e.io # "ok" THEN Return("false") /\ UNCHANGED <<out, console>>
                ELSE IF ~ShaCountOk(count) THEN Return("false") /\ UNCHANGED <<out, console>>
                ELSE IF ~validate_crc(e.data, count)
                THEN Return("false") /\ UNCHANGED <<out, console>>
                ELSE /\ Return("true")
                     /\ out' = SubSeq(e.data, 2, 33)
                     /\ Emit("sha256", SubSeq(e.data, 2, 33))
    /\ UNCHANGED <<mpc, args, idx, buf, mem, dev, session>>

(***************************************************************************)
(* read_slot_config                                                        *)
(***************************************************************************)
RawCountOk(count) == ~(count > RAW_SIZE \/ count < 4)

SlotSend ==
    /\ op = "read_slot_config" /\ opc = "send"
    /\ Transmit(send_atecc_cmd(ATECC_CMD_READ, 0, args.slot, <<>>, 0, TRUE), "read")
    /\ UNCHANGED <<mpc, args, resp, idx, buf, out, mem, console, faults, dev, session>>

SlotRead ==
    /\ op = "read_slot_config" /\ opc = "read"
    /\ \E e \in ReadOutcomes(bus, RAW_SIZE) :
          /\ Receive(e)
          /\ LET count == e.data[1]
             IN IF ~Tolerated(e.io) THEN Return("false") /\ UNCHANGED console
                ELSE IF ~RawCountOk(count) THEN Return("false") /\ UNCHANGED console
                ELSE IF ~validate_crc(e.data, count) THEN Return("false") /\ UNCHANGED console
                ELSE Return("true") /\ Emit("slot", SubSeq(e.data, 1, 4))
    /\ UNCHANGED <<mpc, args, idx, buf, out, mem, dev, session>>

(***************************************************************************)
(* read_config_zone: idx is block, buf is config_data.                     *)
(***************************************************************************)
\* an offset counted in blocks instead of bytes
ConfigOffsetInBlocks(block) == block

ConfigOffset(block) == block * BYTES_PER_BLOCK

ConfigSend ==
    /\ op = "read_config_zone" /\ opc = "send"
    /\ idx < BLOCK_COUNT
    /\ Transmit(send_atecc_cmd(ATECC_CMD_READ, 0, idx, <<>>, 0, TRUE), "recv")
    /\ UNCHANGED <<mpc, args, resp, idx, buf, out, mem, console, faults, dev, session>>

ConfigRecv ==
    /\ op = "read_config_zone" /\ opc = "recv"
    /\ \E e \in ReadOutcomes(bus, ReadLength(BYTES_PER_BLOCK, TRUE)) :
          /\ Receive(e)
          /\ LET r == receive_atecc_response(e, BYTES_PER_BLOCK)
                 config_data == Splice(buf, ConfigOffset(idx), r.payload)
             IN IF ~r.ok
                THEN Return("false") /\ UNCHANGED <<idx, buf, console>>
                ELSE /\ idx' = idx + 1
                     /\ buf' = config_data
                     /\ IF idx + 1 < BLOCK_COUNT
                        THEN Goto("send") /\ UNCHANGED console
                        ELSE Return("true") /\ Emit("config", config_data)
    /\ UNCHANGED <<mpc, args, out, mem, dev, session>>

(***************************************************************************)
(* check_lock_status                                                       *)
(***************************************************************************)
\* a decode that looks at the config lock byte only
LockStateByConfig(lock_config, lock_value) ==
    IF lock_config = 0 THEN "locked"
    ELSE IF lock_config = 85 THEN "unlocked"
    ELSE "unknown"

LockState(lock_config, lock_value) ==
    IF lock_config = 0 /\ lock_value = 0 THEN "locked"
    ELSE IF lock_config = 85 /\ lock_value = 85 THEN "unlocked"
    ELSE IF lock_config = 0 /\ lock_value = 85 THEN "partial"
    ELSE "unknown"

LockSend ==
    /\ op = "check_lock_status" /\ opc = "send"
    /\ Transmit(send_atecc_cmd(ATECC_CMD_READ, 0, LOCK_ADDRESS, <<>>, 0, TRUE), "read")
    /\ UNCHANGED <<mpc, args, resp, idx, buf, out, mem, console, faults, dev, session>>

\* check_lock_status after its read ioctl with outcome e: the value it returns
\* and the lock state it reports ("none" when it does not get to the decode)
check_lock_status(e) ==
    LET count == e.data[1]
        state == LockState(e.data[2], e.data[3])
    IN IF ~Tolerated(e.io) THEN [ret |-> "false", state |-> "none"]
       ELSE IF ~RawCountOk(count) THEN [ret |-> "false", state |-> "none"]
       ELSE IF ~validate_crc(e.data, count) THEN [ret |-> "false", state |-> "none"]
       ELSE IF count - 3 < 4 THEN [ret |-> "false", state |-> "none"]
       ELSE [ret |-> IF state = "unknown" THEN "false" ELSE "true", state |-> state]

LockRead ==
    /\ op = "check_lock_status" /\ opc = "read"
    /\ \E e \in ReadOutcomes(bus, RAW_SIZE) :
          /\ Receive(e)
          /\ LET r == check_lock_status(e)
             IN /\ Return(r.ret)
                /\ IF r.state = "none" THEN UNCHANGED console ELSE Emit("lock", r.state)
    /\ UNCHANGED <<mpc, args, idx, buf, out, mem, dev, session>>

(***************************************************************************)
(* aes_encrypt / aes_decrypt with send_aes_command, receive_aes_response.  *)
(* args.mode is 0 for aes_encrypt and 1 for aes_decrypt.                   *)
(***************************************************************************)
\* a count check without the exact-length test
AesCountInBuffer(count) ==
    ~(count < 4) /\ ~(count = 4) /\ ~(count > AES_RESPONSE_SIZE)

AesCountOk(count) ==
    ~(count < 4) /\ ~(count = 4) /\ ~(count > AES_RESPONSE_SIZE) /\ ~(count # AES_RESPONSE_SIZE)

AesSend ==
    /\ op = "aes" /\ opc = "send"
    /\ IF args.fd < 0 \/ args.input_null \/ args.output_null
       THEN io' = "EINVAL" /\ bus' = bus /\ Return("false")
       ELSE Transmit(send_atecc_cmd(ATECC_CMD_AES, args.mode, args.key_slot % 256,
                                    args.input, AES_BLOCK_SIZE, FALSE), "recv")
    /\ UNCHANGED <<mpc, args, resp, idx, buf, out, mem, console, faults, dev, session>>

AesRecv ==
    /\ op = "aes" /\ opc = "recv"
    /\ \E e \in ReadOutcomes(bus, AES_RESPONSE_SIZE) :
          /\ Receive(e)
          /\ LET count == e.data[1]
             IN IF ~Tolerated(e.io) THEN Return("false") /\ out' = out
                ELSE IF ~AesCountOk(count) THEN Return("false") /\ out' = out
                ELSE IF ~validate_crc(e.data, count) THEN Return("false") /\ out' = out
                ELSE Return("true") /\ out' = SubSeq(e.data, 2, 1 + AES_BLOCK_SIZE)
    /\ UNCHANGED <<mpc, args, idx, buf, mem, console, dev, session>>

(***************************************************************************)
(* main: the demonstration sequence.  mem holds its local buffers; the     *)
(* buffer a call writes through is copied to out at the call and back at   *)
(* the return.                                                             *)
(***************************************************************************)
CallSites == <<"wake", "serial", "range", "value", "sha", "slot", "config", "lock",
               "enc", "dec", "sleep">>

Callee(site) ==
    CASE site = "wake" -> "atecc_wake"
      [] site = "serial" -> "read_atecc_serial_number"
      [] site = "range" -> "genrate_random_number_in_range"
      [] site = "value" -> "generate_random_value"
      [] site = "sha" -> "compute_sha256"
      [] site = "slot" -> "read_slot_config"
      [] site = "config" -> "read_config_zone"
      [] site = "lock" -> "check_lock_status"
      [] site = "enc" -> "aes"
      [] site = "dec" -> "aes"
      [] site = "sleep" -> "atecc_sleep"

Entry(f) ==
    CASE f = "atecc_wake" -> "write"
      [] f = "atecc_sleep" -> "write"
      [] f = "compute_sha256" -> "start"
      [] OTHER -> "send"

\* the zero-initialised local buffer a function assembles its result in
Locals(f) ==
    CASE f = "read_atecc_serial_number" -> Zeros(ATECC_SERIAL_NUMBER_SIZE)
      [] f = "read_config_zone" -> Zeros(CONFIG_SIZE)
      [] OTHER -> <<>>

\* main's buffer that the call at a site writes through ("none": no buffer)
OutField(site) ==
    CASE site = "serial" -> "serial_number"
      [] site = "sha" -> "sha_output"
      [] site = "enc" -> "ciphertext"
      [] site = "dec" -> "decrypted_text"
      [] OTHER -> "none"

\* strlen: the bytes before the first zero byte
Strlen(s) ==
    IF \E i \in 1..Len(s) : s[i] = 0
    THEN (CHOOSE i \in 1..Len(s) : s[i] = 0 /\ \A j \in 1..(i - 1) : s[j] # 0) - 1
    ELSE Len(s)

MainArgs(site, m) ==
    CASE site = "serial" -> [serial_null |-> FALSE]
      [] site = "range" -> [min |-> U64(0), max |-> U64(10000000)]
      [] site = "value" -> [length |-> 16]
      [] site = "sha" -> [data |-> m.serial_number, data_len |-> Strlen(m.serial_number),
                          data_null |-> FALSE, output_null |-> FALSE]
      [] site = "slot" -> [slot |-> 3]
      [] site = "enc" -> [fd |-> 3, mode |-> 0, key_slot |-> 3, input |-> DemoPlaintext,
                          input_null |-> FALSE, output_null |-> FALSE]
      [] site = "dec" -> [fd |-> 3, mode |-> 1, key_slot |-> 3, input |-> m.ciphertext,
                          input_null |-> FALSE, output_null |-> FALSE]
      [] OTHER -> [fd |-> 3]

\* a main that goes on to the next call whatever the last one returned
MainNextUnchecked(site, v) ==
    CASE site = "sleep" -> "exit0"
      [] OTHER -> CallSites[(CHOOSE i \in 1..Len(CallSites) : CallSites[i] = site) + 1]

\* a main that gives up when atecc_sleep fails
MainNextSleepChecked(site, v) ==
    CASE site = "slot" -> "config"
      [] v = "false" -> "exit1"
      [] site = "sleep" -> "exit0"
      [] OTHER -> CallSites[(CHOOSE i \in 1..Len(CallSites) : CallSites[i] = site) + 1]

\* where main goes when the call at a site has returned v
MainNext(site, v) ==
    CASE v = "SIGFPE" -> "killed"
      [] site = "slot" -> "config"
      [] site = "sleep" -> "exit0"
      [] v = "false" -> "exit1"
      [] OTHER -> CallSites[(CHOOSE i \in 1..Len(CallSites) : CallSites[i] = site) + 1]

InSites(x) == \E i \in 1..Len(CallSites) : CallSites[i] = x

MainOpen ==
    /\ mpc = "open"
    /\ \E opened \in BOOLEAN : mpc' = IF opened THEN "wake" ELSE "exit1"
    /\ UNCHANGED <<op, opc, args, bus, resp, io, idx, buf, out, ret, mem, console, faults, dev, session>>

MainCall ==
    /\ InSites(mpc) /\ opc = "done" /\ ret = "none"
    /\ op' = Callee(mpc)
    /\ opc' = Entry(Callee(mpc))
    /\ args' = MainArgs(mpc, mem)
    /\ out' = IF OutField(mpc) = "none" THEN <<>> ELSE mem[OutField(mpc)]
    /\ buf' = Locals(Callee(mpc))
    /\ idx' = 0
    /\ resp' = <<>>
    /\ bus' = <<>>
    /\ console' = <<>>
    /\ faults' = 0
    /\ UNCHANGED <<mpc, io, ret, mem, dev, session>>

MainReturn ==
    /\ InSites(mpc) /\ opc = "done" /\ ret # "none"
    /\ mem' = IF OutField(mpc) = "none" THEN mem ELSE [mem EXCEPT ![OutField(mpc)] = out]
    /\ mpc' = MainNext(mpc, ret)
    /\ ret' = "none"
    /\ IF mpc = "dec" /\ ret = "true"
       THEN Emit("match", DemoPlaintext = out)
       ELSE UNCHANGED console
    /\ UNCHANGED <<op, opc, args, bus, resp, io, idx, buf, out, faults, dev, session>>

MainMem ==
    [serial_number |-> Zeros(ATECC_SERIAL_NUMBER_SIZE), sha_output |-> Zeros(32),
     ciphertext |-> Zeros(AES_BLOCK_SIZE), decrypted_text |-> Zeros(AES_BLOCK_SIZE)]

Init ==
    /\ mpc = "open" /\ op = "none" /\ opc = "done" /\ args = [fd |-> 3]
    /\ bus = <<>> /\ resp = <<>> /\ io = "ok" /\ idx = 0 /\ buf = <<>> /\ out = <<>>
    /\ ret = "none" /\ mem = MainMem /\ console = <<>> /\ faults = 0
    /\ dev \in 0..MaxSeed /\ session = "Asleep"

Library ==
    \/ WakeWrite \/ WakeRead \/ SleepWrite
    \/ SerialSend \/ SerialRecv
    \/ RangeSend \/ RangeRecv
    \/ ValueSend \/ ValueRecv
    \/ ShaStart \/ ShaLoop \/ ShaRead
    \/ SlotSend \/ SlotRead
    \/ ConfigSend \/ ConfigRecv
    \/ LockSend \/ LockRead
    \/ AesSend \/ AesRecv

Next == MainOpen \/ MainCall \/ MainReturn \/ Library

Spec == Init /\ [][Next]_vars

(***************************************************************************)
(* A single call of a library function by an arbitrary caller, the session *)
(* being awake: the arguments are drawn from bounded sets.                 *)
(***************************************************************************)
Pattern(n, seed) == [i \in 1..n |-> (7 * i + 13 * seed + 1) % 256]
Fill(n, v) == [i \in 1..n |-> v]

ShaCalls ==
    {[data |-> Pattern(n, s), data_len |-> n, data_null |-> FALSE, output_null |-> FALSE] :
        n \in 0..MaxDataLen, s \in 0..MaxPattern}
    \cup {[data |-> <<>>, data_len |-> n, data_null |-> TRUE, output_null |-> FALSE] :
             n \in {0, 5}}
    \cup {[data |-> Pattern(3, 0), data_len |-> 3, data_null |-> FALSE, output_null |-> TRUE]}

AesCalls ==
    {[fd |-> 3, mode |-> m, key_slot |-> k, input |-> b, input_null |-> FALSE,
      output_null |-> FALSE] :
        m \in {0, 1}, k \in {0, 3}, b \in {DemoPlaintext, DemoCiphertext} \cup
                                          {Pattern(AES_BLOCK_SIZE, s) : s \in 0..MaxPattern}}
    \cup {[fd |-> f, mode |-> 0, key_slot |-> 3, input |-> DemoPlaintext,
           input_null |-> i, output_null |-> o] :
             f \in {-1, 3}, i \in BOOLEAN, o \in BOOLEAN}

Calls ==
    {[f |-> "compute_sha256", args |-> a, out |-> Fill(32, 238)] : a \in ShaCalls}
    \cup {[f |-> "aes", args |-> a, out |-> Fill(AES_BLOCK_SIZE, 238)] : a \in AesCalls}
    \cup {[f |-> "read_atecc_serial_number", args |-> [serial_null |-> n],
           out |-> Fill(ATECC_SERIAL_NUMBER_SIZE, 238)] : n \in BOOLEAN}
    \cup {[f |-> "genrate_random_number_in_range", args |-> [min |-> U64(r[1]), max |-> U64(r[2])],
           out |-> <<>>] : r \in {<<0, 10000000>>, <<5, 9>>, <<7, 7>>}}
    \cup {[f |-> "generate_random_value", args |-> [length |-> n], out |-> <<>>] :
             n \in 0..33}
    \cup {[f |-> "read_slot_config", args |-> [slot |-> n], out |-> <<>>] : n \in 0..3}
    \cup {[f |-> g, args |-> [fd |-> 3], out |-> <<>>] :
             g \in {"read_config_zone", "check_lock_status"}}

InitCall ==
    /\ mpc = "test"
    /\ \E c \in Calls :
          /\ op = c.f /\ opc = Entry(c.f) /\ args = c.args
          /\ out = c.out /\ buf = Locals(c.f) /\ mem = [test |-> c.out]
    /\ bus = <<>> /\ resp = <<>> /\ io = "ok" /\ idx = 0
    /\ ret = "none" /\ console = <<>> /\ faults = 0
    /\ dev \in 0..MaxSeed /\ session = "Awake"

NextCall ==
    \/ SerialSend \/ SerialRecv
    \/ RangeSend \/ RangeRecv
    \/ ValueSend \/ ValueRecv
    \/ ShaStart \/ ShaLoop \/ ShaRead
    \/ SlotSend \/ SlotRead
    \/ ConfigSend \/ ConfigRecv
    \/ LockSend \/ LockRead
    \/ AesSend \/ AesRecv

SpecCall == InitCall /\ [][NextCall]_vars

(***************************************************************************)
(* The helper functions called on their own: calc_crc16_ccitt,             *)
(* validate_crc and send_atecc_cmd, each applied once to arguments drawn   *)
(* from bounded sets.  args holds the arguments, out / ret the result.     *)
(***************************************************************************)
WithCrc(d) == d \o calc_crc16_ccitt(Len(d), d)

CrcInputs ==
    {<<>>, <<7, 0, 0, 0, 0>>, <<4, 17>>}
    \cup {<<b>> : b \in Byte}
    \cup {Pattern(n, s) : n \in 2..MaxCrcLen, s \in 0..MaxPattern}

ValidateInputs ==
    {<<>>, <<0>>, <<0, 0>>, <<1, 2>>, <<0, 0, 0>>, <<1, 0, 0>>}
    \cup {WithCrc(d) : d \in CrcInputs}
    \cup {CorruptCrc(WithCrc(d)) : d \in CrcInputs}
    \cup {d \o <<0, 0>> : d \in CrcInputs}
    \cup {WithCrc(Pattern(253, 0)), WithCrc(Pattern(255, 0)), CorruptCrc(WithCrc(Pattern(255, 0))),
          WithCrc(Pattern(256, 0)), Pattern(256, 0) \o <<0, 0>>}

SendInputs ==
    {[opcode |-> o, param1 |-> p, param2 |-> q, payload |-> Pattern(n, s), data_len |-> n,
      data_null |-> FALSE] :
        o \in {ATECC_CMD_READ, ATECC_CMD_SHA}, p \in {0, 2}, q \in {0, 21, 4660},
        n \in 1..MaxPayload, s \in 0..MaxPattern}
    \cup {[opcode |-> ATECC_CMD_AES, param1 |-> 1, param2 |-> 515, payload |-> Pattern(n, 1),
           data_len |-> n, data_null |-> FALSE] : n \in {16, 64, 121, 122, 200, 255}}
    \cup {[opcode |-> ATECC_CMD_RANDOM, param1 |-> 0, param2 |-> q, payload |-> <<>>,
           data_len |-> n, data_null |-> TRUE] : q \in {0, 4660}, n \in {0, 5, 122}}
    \cup {[opcode |-> ATECC_CMD_SHA, param1 |-> 2, param2 |-> 0, payload |-> Pattern(3, s),
           data_len |-> 0, data_null |-> FALSE] : s \in 0..MaxPattern}

\* calls of receive_atecc_response: the requested lengths go past the 128
\* bytes of response[], the buffer is the caller's
ReceiveLengths == {0, 1, 4, 32} \cup (125..MaxRecvLen)
ReceiveInputs ==
    [length : ReceiveLengths, full_response : BOOLEAN, buffer_null : BOOLEAN,
     buffer : {Fill(MaxRecvLen, 238)}]

\* what the read ioctl of such a call can leave in response[0 .. n-1]
ReceiveOutcomes(n, length) ==
    {[io |-> "ok", fault |-> 0,
      data |-> [i \in 1..n |-> IF i = 1 THEN c ELSE IF i = 2 THEN st ELSE (7 * i + 1) % 256]] :
        c \in {3, 4, length, length + 1, length + 3, 255} \cap Byte, st \in StatusCodes}
    \cup {[io |-> o, fault |-> 0, data |-> Zeros(n)] : o \in IoOutcome \ {"ok"}}

\* bytes of the stack that lie behind response[]
StackBytes == {0, 165}

\* calls of map_random_to_range
MapRanges ==
    {<<U64(0), U64(10000000)>>, <<U64(5), U64(9)>>, <<U64(7), U64(7)>>,
     <<Zero64, Max64>>, <<U64(1), Max64>>, <<Zero64, [Max64 EXCEPT ![8] = 254]>>,
     <<Max64, Max64>>, <<[Zero64 EXCEPT ![1] = 128], Max64>>}
MapInputs ==
    {[random_bytes |-> b, min |-> r[1], max |-> r[2]] :
        b \in {Pattern(8, sd) : sd \in 0..MaxPattern} \cup {Zero64, Max64},
        r \in MapRanges}

InitUnit ==
    /\ mpc = "unit" /\ opc = "call"
    /\ \/ op = "calc_crc16_ccitt" /\ \E d \in CrcInputs : args = [data |-> d]
       \/ op = "validate_crc" /\ \E d \in ValidateInputs : args = [response |-> d]
       \/ op = "send_atecc_cmd" /\ args \in SendInputs
       \/ op = "receive_atecc_response" /\ args \in ReceiveInputs
       \/ op = "map_random_to_range" /\ args \in MapInputs
    /\ bus = <<>> /\ resp = <<>> /\ io = "ok" /\ idx = 0 /\ buf = <<>>
    /\ out = IF op = "receive_atecc_response" THEN args.buffer ELSE <<>>
    /\ ret = "none" /\ mem = [test |-> <<>>] /\ console = <<>> /\ faults = 0
    /\ dev = 0 /\ session = "Awake"

CrcCall ==
    /\ op = "calc_crc16_ccitt" /\ opc = "call"
    /\ out' = calc_crc16_ccitt(Len(args.data), args.data)
    /\ Return("none")
    /\ UNCHANGED <<mpc, args, bus, resp, io, idx, buf, mem, console, faults, dev, session>>

ValidateCall ==
    /\ op = "validate_crc" /\ opc = "call"
    /\ Return(IF validate_crc(args.response, Len(args.response)) THEN "true" ELSE "false")
    /\ UNCHANGED <<mpc, args, bus, resp, io, idx, buf, out, mem, console, faults, dev, session>>

SendCall ==
    /\ op = "send_atecc_cmd" /\ opc = "call"
    /\ LET c == send_atecc_cmd(args.opcode, args.param1, args.param2, args.payload,
                               args.data_len, args.data_null)
       IN IF ~c.valid
          THEN io' = "EINVAL" /\ bus' = bus /\ Return("false")
          ELSE \E o \in IoOutcome :
                  /\ io' = o
                  /\ bus' = Append(bus, Wr(c.frame))
                  /\ Return(IF Tolerated(o) THEN "true" ELSE "false")
    /\ UNCHANGED <<mpc, args, resp, idx, buf, out, mem, console, faults, dev, session>>

ReceiveCall ==
    /\ op = "receive_atecc_response" /\ opc = "call"
    /\ IF args.buffer_null \/ args.length = 0
       THEN /\ io' = "EINVAL" /\ Return("false")
            /\ UNCHANGED <<bus, resp, out, console, faults>>
       ELSE \E e \in ReceiveOutcomes(ReadLength(args.length, args.full_response),
                                     args.length) :
               /\ Receive(e)
               /\ LET r == receive_atecc_response(e, args.length)
                  IN IF ~r.ok
                     THEN /\ Return("false") /\ out' = out
                          /\ IF r.class = "transport" THEN console' = console
                             ELSE Emit(r.class, r.status)
                     ELSE /\ Return("true") /\ console' = console
                          /\ \E junk \in StackBytes :
                                out' = Splice(out, 0,
                                    [i \in 1..args.length |->
                                        IF i >= ATECC_RESPONSE_SIZE THEN junk
                                        ELSE r.payload[i]])
    /\ UNCHANGED <<mpc, args, idx, buf, mem, dev, session>>

MapCall ==
    /\ op = "map_random_to_range" /\ opc = "call"
    /\ \E x \in map_random_to_range(args.random_bytes, args.min, args.max) :
          IF x.trap THEN Return("SIGFPE") /\ out' = out
          ELSE Return("none") /\ out' = x.value
    /\ UNCHANGED <<mpc, args, bus, resp, io, idx, buf, mem, console, faults, dev, session>>

NextUnit == CrcCall \/ ValidateCall \/ SendCall \/ ReceiveCall \/ MapCall

SpecUnit == InitUnit /\ [][NextUnit]_vars

(***************************************************************************)
(* Properties.  Observations of the bus log shared by the properties.      *)
(***************************************************************************)
IsWrite(t) == t.kind = "w"
Last(s) == s[Len(s)]
Writes == SelectSeq(bus, IsWrite)
Returned(v) == opc = "done" /\ ret = v

\* the functions that read their response through receive_atecc_response,
\* and the length each of them asks for
UsesReceive == {"read_atecc_serial_number", "genrate_random_number_in_range",
                "generate_random_value", "read_config_zone"}
RequestedLength ==
    CASE op = "genrate_random_number_in_range" -> 32
      [] op = "generate_random_value" -> args.length
      [] OTHER -> 4

\* the response to the last command has just been read
ResponseRead == op # "none" /\ bus # <<>> /\ IsRead(Last(bus)) /\ resp = Last(bus).data

\* the whole response (count bytes) is in the buffer and its last two bytes
\* are not the CRC of the bytes before them
ChecksumMismatch(r) == r[1] >= 3 /\ r[1] <= Len(r) /\ ~validate_crc(r, r[1])

\* a 4-byte status response with a correct checksum and a non-success status
StatusResponse(r) ==
    Len(r) >= 4 /\ r[1] = 4 /\ validate_crc(r, 4) /\ r[2] # ATECC_STATUS_SUCCESS

RECURSIVE Payloads(_, _)
Payloads(w, i) == IF i > Len(w) THEN <<>> ELSE FramePayload(w[i]) \o Payloads(w, i + 1)

(***************************************************************************)
(* C1: in every command-library operation command frames and response     *)
(* reads alternate: between any two command frames of the operation there  *)
(* is a read of the response to the first.                                 *)
(***************************************************************************)
CommandsAndReadsAlternate ==
    \A i \in 1..Len(bus) : \A j \in (i + 1)..Len(bus) :
        (IsCmdFrame(bus[i]) /\ IsCmdFrame(bus[j])) => \E k \in (i + 1)..(j - 1) : IsRead(bus[k])

(***************************************************************************)
(* C2: a command frame is written only while the session is Awake (after   *)
(* atecc_wake has returned true and before atecc_sleep writes), a session  *)
(* whose wake failed stays Faulted so that no command frame is ever sent   *)
(* in it, and the wake token is written by atecc_wake only.                *)
(***************************************************************************)
Sent == IF Len(bus') = Len(bus) + 1 /\ IsWrite(Last(bus')) THEN {Last(bus')} ELSE {}

CommandsOnlyWhileAwake ==
    [][/\ \A t \in Sent :
             /\ IsCmdFrame(t) => (session = "Awake" /\ session' = "Awake")
             /\ IsWakeToken(t) => op = "atecc_wake"
       /\ session = "Faulted" => session' = "Faulted"]_vars

\* C2 witness: main has reached the decryption, awake, with its frame on the bus
AwakeCommandSent ==
    /\ mpc = "dec" /\ op = "aes" /\ session = "Awake"
    /\ \E i \in 1..Len(bus) : IsCmdFrame(bus[i])

(***************************************************************************)
(* C3: when read_atecc_serial_number returns true it has read word         *)
(* addresses 0, 2, 3, each read followed by a receive, and the caller's    *)
(* buffer holds the 4 + 4 + 1 bytes of the three responses.                *)
(***************************************************************************)
SerialNumberDelivered ==
    (op = "read_atecc_serial_number" /\ Returned("true")) =>
        /\ Len(bus) = 6
        /\ \A k \in 0..2 :
              /\ IsCmdFrame(bus[2 * k + 1])
              /\ FrameOpcode(bus[2 * k + 1]) = ATECC_CMD_READ
              /\ FrameParam2(bus[2 * k + 1]) = <<0, 2, 3>>[k + 1]
              /\ IsRead(bus[2 * k + 2])
        /\ out = SubSeq(bus[2].data, 2, 5) \o SubSeq(bus[4].data, 2, 5) \o <<bus[6].data[2]>>

(***************************************************************************)
(* C4: when the response just received through receive_atecc_response has  *)
(* a checksum that does not match, the receive fails: the function that    *)
(* called it has returned false.                                           *)
(***************************************************************************)
ChecksumMismatchFails ==
    (op \in UsesReceive /\ ResponseRead /\ Tolerated(io) /\ ChecksumMismatch(resp))
        => Returned("false")

(***************************************************************************)
(* C5: receive_atecc_response succeeds only when count > 4 and the payload *)
(* region (count - 3 bytes) is at least the requested length, so that      *)
(* every byte copied is a payload byte.                                    *)
(***************************************************************************)
ReceiveCopiesPayloadOnly ==
    (op \in UsesReceive /\ ResponseRead /\ ~Returned("false"))
        => (resp[1] > 4 /\ resp[1] - 3 >= RequestedLength)

(***************************************************************************)
(* C6: every command-library operation returns false when the device has   *)
(* answered with a 4-byte status response carrying a non-success status.   *)
(***************************************************************************)
StatusResponseFails ==
    (op \notin {"atecc_wake", "atecc_sleep"} /\ ResponseRead /\ io = "ok"
        /\ StatusResponse(resp)) => Returned("false")

(***************************************************************************)
(* C7: for n input bytes compute_sha256 sends a start frame, floor(n/64)   *)
(* update frames carrying the successive 64-byte chunks, and one end frame *)
(* carrying the remaining n mod 64 bytes with param2 = n mod 64, in this   *)
(* order; the update and end payloads concatenated are the input.          *)
(***************************************************************************)
ShaFrameSequence ==
    op = "compute_sha256" =>
        LET w == Writes
            n == args.data_len
            updates == n \div 64
        IN /\ Len(w) <= updates + 2
           /\ \A i \in 1..Len(w) :
                 /\ IsCmdFrame(w[i]) /\ FrameOpcode(w[i]) = ATECC_CMD_SHA
                 /\ IF i = 1
                    THEN FrameParam1(w[i]) = 0 /\ FramePayload(w[i]) = <<>>
                    ELSE IF i <= updates + 1
                    THEN /\ FrameParam1(w[i]) = 1
                         /\ Len(FramePayload(w[i])) = 64
                         /\ FramePayload(w[i])
                               = SubSeq(args.data, 64 * (i - 2) + 1, 64 * (i - 1))
                    ELSE /\ FrameParam1(w[i]) = 2
                         /\ FrameParam2(w[i]) = n % 64
                         /\ FramePayload(w[i]) = SubSeq(args.data, 64 * updates + 1, n)
           /\ \A i \in 1..Len(bus) : IsRead(bus[i]) => (i = Len(bus) /\ Len(w) = updates + 2)
           /\ Returned("true") => Len(w) = updates + 2
           /\ Len(w) = updates + 2 => Payloads(w, 2) = SubSeq(args.data, 1, n)

\* C7 witness: a 130-byte input hashed: two updates of 64 bytes, an end of 2
ShaOf130Sent ==
    /\ op = "compute_sha256" /\ Returned("true") /\ args.data_len = 130
    /\ Len(Writes) = 4 /\ Len(FramePayload(Writes[4])) = 2

(***************************************************************************)
(* C8: compute_sha256 returns true only after a 35-byte response with      *)
(* count 35 and a valid checksum, and then the output is response bytes    *)
(* 1..32; a failed send, a failed read, a wrong count or a wrong checksum  *)
(* makes it return false at once (the failing transaction is the last one  *)
(* on the bus) with the caller's output as it was at the call.             *)
(***************************************************************************)
ShaReadFailed == IsRead(Last(bus)) /\ (io # "ok" \/ resp[1] # 35 \/ ~validate_crc(resp, 35))

ShaResult ==
    op = "compute_sha256" =>
        /\ Returned("true") =>
              /\ ResponseRead /\ io = "ok"
              /\ Len(resp) = 35 /\ resp[1] = 35 /\ validate_crc(resp, 35)
              /\ out = SubSeq(resp, 2, 33)
        /\ ~Returned("true") => out = mem.test
        /\ (bus # <<>> /\ IsWrite(Last(bus)) /\ ~Tolerated(io)) => Returned("false")
        /\ (ResponseRead /\ ShaReadFailed) => Returned("false")
        /\ Returned("false") =>
              \/ bus = <<>> /\ io = "EINVAL"
              \/ bus # <<>> /\ IsWrite(Last(bus)) /\ ~Tolerated(io)
              \/ ResponseRead /\ ShaReadFailed

\* C8 witness: the digest response arrived with a wrong checksum, the call failed
ShaChecksumRejected ==
    /\ op = "compute_sha256" /\ Returned("false") /\ ResponseRead /\ io = "ok"
    /\ resp[1] = 35 /\ ~validate_crc(resp, 35)
    /\ out = mem.test /\ out # SubSeq(resp, 2, 33)

(***************************************************************************)
(* C9: aes_encrypt / aes_decrypt send one frame (param1 = mode, param2 =   *)
(* key slot, payload = the 16 input bytes) and read one 19-byte response;  *)
(* they return true only for count 19 with a valid checksum, the output    *)
(* then being response bytes 1..16; any other count, a wrong checksum or a *)
(* transport failure makes them return false with the output unchanged.    *)
(***************************************************************************)
AesReadFailed == ~Tolerated(io) \/ resp[1] # 19 \/ ~validate_crc(resp, 19)

AesResult ==
    op = "aes" =>
        /\ Len(bus) <= 2
        /\ Len(bus) >= 1 =>
              /\ IsCmdFrame(bus[1]) /\ FrameOpcode(bus[1]) = ATECC_CMD_AES
              /\ FrameParam1(bus[1]) = args.mode
              /\ FrameParam2(bus[1]) = args.key_slot
              /\ FramePayload(bus[1]) = args.input /\ Len(FramePayload(bus[1])) = 16
        /\ Len(bus) = 2 => (IsRead(bus[2]) /\ Len(bus[2].data) = 19)
        /\ Returned("true") =>
              /\ Len(bus) = 2 /\ ResponseRead /\ ~AesReadFailed
              /\ out = SubSeq(resp, 2, 17)
        /\ ~Returned("true") => out = mem.test
        /\ (Len(bus) = 1 /\ ~Tolerated(io)) => Returned("false")
        /\ (Len(bus) = 2 /\ AesReadFailed) => Returned("false")

\* C9 witness: decrypting the recorded ciphertext on a device that answers
\* with the recorded plaintext gives that plaintext
AesDecryptsRecordedVector ==
    /\ op = "aes" /\ Returned("true") /\ args.mode = 1 /\ args.input = DemoCiphertext
    /\ SubSeq(resp, 2, 17) = DemoPlaintext /\ out = DemoPlaintext

(***************************************************************************)
(* C10: read_config_zone reads word addresses 0, 1, ..., 31 in this order, *)
(* each command followed by one 4-byte receive, and puts block k at bytes  *)
(* 4k..4k+3 of the zone; a failed send or receive makes it return false at *)
(* once (the failing transaction is the last one) and no zone is printed.  *)
(***************************************************************************)
ConfigReceiveFailed == ~Tolerated(io) \/ resp[1] <= 4

ConfigZoneRead ==
    op = "read_config_zone" =>
        /\ Len(bus) <= 64
        /\ \A i \in 1..Len(bus) :
              IF i % 2 = 1
              THEN /\ IsCmdFrame(bus[i]) /\ FrameOpcode(bus[i]) = ATECC_CMD_READ
                   /\ FrameParam1(bus[i]) = 0 /\ FrameParam2(bus[i]) = (i - 1) \div 2
                   /\ FramePayload(bus[i]) = <<>>
              ELSE IsRead(bus[i]) /\ Len(bus[i].data) = 4 + 3
        /\ Len(buf) = 128
        /\ \A k \in 0..31 :
              SubSeq(buf, 4 * k + 1, 4 * k + 4)
                  = IF 2 * k + 2 <= Len(bus) /\ ~(2 * k + 2 = Len(bus) /\ Returned("false"))
                    THEN SubSeq(bus[2 * k + 2].data, 2, 5)
                    ELSE <<0, 0, 0, 0>>
        /\ Returned("true") =>
              (Len(bus) = 64 /\ console = <<[tag |-> "config", value |-> buf]>>)
        /\ ~Returned("true") => console = <<>>
        /\ (bus # <<>> /\ IsWrite(Last(bus)) /\ ~Tolerated(io)) => Returned("false")
        /\ (ResponseRead /\ ConfigReceiveFailed) => Returned("false")
        /\ Returned("false") =>
              \/ bus # <<>> /\ IsWrite(Last(bus)) /\ ~Tolerated(io)
              \/ ResponseRead /\ ConfigReceiveFailed

\* C10 witness: block 5 could not be received: the read stopped there, after
\* five good blocks, and printed nothing
ConfigZoneAborted ==
    /\ op = "read_config_zone" /\ Returned("false") /\ Len(bus) = 12
    /\ ResponseRead /\ console = <<>>
    /\ SubSeq(buf, 17, 20) = SubSeq(bus[10].data, 2, 5)

(***************************************************************************)
(* C11: check_lock_status issues one read at word address 0x15 and, for a  *)
(* checksum-valid 7-byte response with lock bytes (c, d), reports          *)
(* (00,00) as locked, (55,55) as unlocked, (00,55) as partially locked,    *)
(* each returning true, and every other pair as unknown, returning false.  *)
(***************************************************************************)
WellFormedLockResponse == ResponseRead /\ io = "ok" /\ resp[1] = 7 /\ validate_crc(resp, 7)

TransportOrIntegrityFailure(e) ==
    ~Tolerated(e.io) \/ ~RawCountOk(e.data[1]) \/ ~validate_crc(e.data, e.data[1])

LockDecodeErrorDistinct ==
    (op = "check_lock_status" /\ ResponseRead /\ Returned("false")
        /\ console = <<[tag |-> "lock", value |-> "unknown"]>>)
    => \A e \in ReadOutcomes(<<bus[1]>>, RAW_SIZE) :
          TransportOrIntegrityFailure(e) => <<check_lock_status(e).ret, e.io>> # <<ret, io>>

(***************************************************************************)
(* C13: calc_crc16_ccitt gives the little-endian bytes of the register     *)
(* that starts at 0 and, for each byte and each of its bits from the least *)
(* significant one, is shifted left by one (mod 2^16) and XOR-ed with      *)
(* 0x8005 when the input bit differs from the register's previous top bit; *)
(* the empty input gives 00 00 and 07 00 00 00 00 gives 03 AD.             *)
(***************************************************************************)
\* bit i (from 1) of the input, bytes in order, each byte from its lowest bit
InputBit(data, i) == (data[((i - 1) \div 8) + 1] \div (2 ^ ((i - 1) % 8))) % 2

\* bitwise XOR of two 16-bit values
Xor16(a, b) ==
    LET sum[k \in 0..16] ==
            IF k = 16 THEN 0
            ELSE (((a \div (2 ^ k)) + (b \div (2 ^ k))) % 2) * (2 ^ k) + sum[k + 1]
    IN sum[0]

RegisterStep(reg, bit) ==
    Xor16((reg * 2) % 65536, IF bit # reg \div 32768 THEN 32773 ELSE 0)

RegisterAfter(data) ==
    LET n == 8 * Len(data)
        run[reg \in 0..65535, lo \in 1..(n + 1), hi \in 0..n] ==
            IF lo > hi THEN reg
            ELSE IF lo = hi THEN RegisterStep(reg, InputBit(data, lo))
            ELSE run[run[reg, lo, (lo + hi) \div 2], ((lo + hi) \div 2) + 1, hi]
    IN run[0, 1, n]

LittleEndian16(v) == <<v % 256, v \div 256>>

CrcIsRegisterLittleEndian ==
    (op = "calc_crc16_ccitt" /\ opc = "done") =>
        /\ out = LittleEndian16(RegisterAfter(args.data))
        /\ args.data = <<>> => out = <<0, 0>>
        /\ args.data = <<7, 0, 0, 0, 0>> => out = <<3, 173>>

\* C13 witness: the lock-status vector 07 00 00 00 00 has been given its trailer 03 AD
CrcOfLockVector ==
    /\ op = "calc_crc16_ccitt" /\ opc = "done"
    /\ args.data = <<7, 0, 0, 0, 0>> /\ out = <<3, 173>>

(***************************************************************************)
(* C14: validate_crc returns false for every input shorter than 3 bytes,   *)
(* and for every input of length L >= 3 it returns true exactly when bytes *)
(* L-2 and L-1 are the little-endian CRC of bytes 0..L-3.                  *)
(***************************************************************************)
TrailerIsCrc(r) ==
    LET L == Len(r)
    IN SubSeq(r, L - 1, L) = calc_crc16_ccitt(L - 2, r)

ValidateCrcContract ==
    (op = "validate_crc" /\ opc = "done") =>
        IF Len(args.response) < 3 THEN ret = "false"
        ELSE (ret = "true") <=> TrailerIsCrc(args.response)

(***************************************************************************)
(* C15: the frame send_atecc_cmd builds for a payload of 0..121 bytes      *)
(* (length prefix through checksum) passes validate_crc, and the frame     *)
(* with any single bit flipped does not.                                   *)
(***************************************************************************)
\* the frame of a bus write without the word-address byte
FrameBody(t) == SubSeq(t.data, 2, Len(t.data))

\* f with bit i (from 1) flipped
FlipAt(f, i) ==
    [f EXCEPT ![((i - 1) \div 8) + 1] = FlipBit(f[((i - 1) \div 8) + 1], (i - 1) % 8)]

FrameRoundTrip ==
    (op = "send_atecc_cmd" /\ bus # <<>>) =>
        LET f == FrameBody(bus[1])
        IN /\ args.data_len <= 121
           /\ validate_crc(f, Len(f))
           /\ \A i \in 1..(8 * Len(f)) : ~validate_crc(FlipAt(f, i), Len(f))

\* C15 witness: a frame with the longest payload, 121 bytes, was built and sent
LongestFrameBuilt ==
    /\ op = "send_atecc_cmd" /\ Returned("true") /\ args.data_len = 121
    /\ Len(bus) = 1 /\ Len(FrameBody(bus[1])) = 128
    /\ validate_crc(FrameBody(bus[1]), 128)

(***************************************************************************)
(* C16: every frame send_atecc_cmd puts on the bus is, in one write        *)
(* transaction: the word-address byte 0x03, then 7 + payload length,       *)
(* opcode, param1, param2 low byte, param2 high byte, the payload bytes    *)
(* unchanged and in order, and a 2-byte checksum over the 5 + payload      *)
(* length bytes that follow the word-address byte.                         *)
(***************************************************************************)
FrameLayout ==
    (op = "send_atecc_cmd" /\ bus # <<>>) =>
        LET f == bus[1].data
            n == args.data_len
        IN /\ Len(bus) = 1 /\ IsWrite(bus[1])
           /\ Len(f) = 8 + n
           /\ f[1] = 3
           /\ f[2] = 7 + n
           /\ f[3] = args.opcode
           /\ f[4] = args.param1
           /\ f[5] = args.param2 % 256
           /\ f[6] = args.param2 \div 256
           /\ SubSeq(f, 7, 6 + n) = SubSeq(args.payload, 1, n)
           /\ SubSeq(f, 7 + n, 8 + n) = LittleEndian16(RegisterAfter(SubSeq(f, 2, 6 + n)))

\* C16 witness: a frame with param2 = 0x1234 and a 4-byte payload is on the bus
FrameWithPayloadSent ==
    /\ op = "send_atecc_cmd" /\ Returned("true") /\ Len(bus) = 1
    /\ args.param2 = 4660 /\ args.data_len = 4
    /\ SubSeq(bus[1].data, 5, 6) = <<52, 18>>
    /\ SubSeq(bus[1].data, 7, 10) = args.payload

(***************************************************************************)
(* C17: send_atecc_cmd fails with an invalid-argument error and performs   *)
(* no bus transaction when the payload length exceeds 121, when a nonzero  *)
(* length comes with an absent payload, and when a payload is present with *)
(* a declared length of zero.                                              *)
(***************************************************************************)
SendArgumentsInvalid ==
    \/ args.data_len > 121
    \/ args.data_len > 0 /\ args.data_null
    \/ args.data_len = 0 /\ ~args.data_null

SendRejectsInvalidArguments ==
    (op = "send_atecc_cmd" /\ opc = "done" /\ SendArgumentsInvalid)
        => (ret = "false" /\ io = "EINVAL" /\ bus = <<>>)

(***************************************************************************)
(* C18: every bus write and read treats a transport failure with EIO or    *)
(* EREMOTEIO as tolerated (the function does not return failure because of *)
(* it) and a failure with any other code as fatal (it returns false).      *)
(***************************************************************************)
\* a library function is running or has just returned to its caller
InCall == op # "none" /\ ~(opc = "done" /\ ret = "none")

TransportErrorsClassified ==
    (InCall /\ bus # <<>>) =>
        /\ (IsWrite(Last(bus)) /\ io \in {"EIO", "EREMOTEIO"}) => ~Returned("false")
        /\ io \notin {"ok", "EIO", "EREMOTEIO", "EINVAL"} => Returned("false")

(***************************************************************************)
(* C19: an operation called with an invalid argument (an absent required   *)
(* buffer, a length out of bounds, a length that does not match its        *)
(* pointer, a random length of 0) fails before it has issued any bus       *)
(* transaction.                                                            *)
(***************************************************************************)
ArgumentsInvalid ==
    CASE op = "read_atecc_serial_number" -> args.serial_null
      [] op = "generate_random_value" -> args.length = 0 \/ args.length > 31
      [] op = "compute_sha256" -> args.output_null \/ (args.data_null /\ args.data_len # 0)
      [] op = "aes" -> args.fd < 0 \/ args.input_null \/ args.output_null
      [] OTHER -> FALSE

InvalidArgumentsFailEarly ==
    ArgumentsInvalid => (bus = <<>> /\ (opc = "done" => (ret = "false" /\ io = "EINVAL")))

(***************************************************************************)
(* C20: every response reader fails when the count byte of the response is *)
(* below 4 or exceeds the capacity of the buffer the response was read     *)
(* into (128 bytes for receive_atecc_response).                            *)
(***************************************************************************)
BufferCapacity ==
    CASE op \in UsesReceive -> 128
      [] op = "compute_sha256" -> 35
      [] op = "aes" -> 19
      [] OTHER -> 7

CountRangeEnforced ==
    (op \in UsesReceive \cup {"compute_sha256", "aes", "read_slot_config", "check_lock_status"}
        /\ ResponseRead /\ (resp[1] < 4 \/ resp[1] > BufferCapacity))
    => Returned("false")

(***************************************************************************)
(* C21: atecc_wake writes exactly one byte 0x00 and then reads exactly 4   *)
(* bytes; it returns success exactly when the read did not fail and the    *)
(* response starts with 0x04, 0x11.  For every other response it returns   *)
(* failure, the session is Faulted and the program sends no command.       *)
(***************************************************************************)
WakeBusShape ==
    /\ Len(bus) <= 2
    /\ Len(bus) >= 1 => bus[1] = Wr(<<0>>)
    /\ Len(bus) = 2 => (IsRead(bus[2]) /\ Len(bus[2].data) = 4)

WakeReadAccepted ==
    Len(bus) = 2 /\ io = "ok" /\ resp[1] = 4 /\ resp[2] = 17

WakeContract ==
    /\ op = "atecc_wake" =>
          /\ WakeBusShape
          /\ (opc = "done" /\ ret # "none") => (ret = "true" <=> WakeReadAccepted)
          /\ (opc = "done" /\ ret = "false") => session = "Faulted"
    /\ session = "Faulted" =>
          /\ op = "atecc_wake" /\ opc = "done"
          /\ mpc \in {"wake", "exit1"}
          /\ \A i \in 1..Len(bus) : ~IsCmdFrame(bus[i])

WakeRejectsWrongCount ==
    /\ mpc = "exit1" /\ op = "atecc_wake" /\ session = "Faulted"
    /\ io = "ok" /\ resp = <<7, 17, 51, 67>>

(***************************************************************************)
(* C22: within an operation the first detected failure ends it: a failed   *)
(* send or a failed read is the last bus transaction of the operation, the *)
(* operation that returned failure touches the bus no more, and no command *)
(* frame is sent a second time (there is no retry).                        *)
(***************************************************************************)
TransactionFailed ==
    /\ bus # <<>>
    /\ \/ IsWrite(Last(bus)) /\ ~Tolerated(io)
       \/ IsRead(Last(bus)) /\ (~Tolerated(io) \/ resp[1] < 4)
       \/ /\ op \in {"compute_sha256", "aes", "read_slot_config", "check_lock_status"}
          /\ IsRead(Last(bus)) /\ ChecksumMismatch(resp)

FailFastStep ==
    /\ Returned("false") => bus' = bus
    /\ (Len(bus') = Len(bus) + 1 /\ TransactionFailed')
          => (opc' = "done" /\ ret' = "false")
    /\ (Len(bus') = Len(bus) + 1 /\ IsCmdFrame(Last(bus')))
          => \A i \in 1..Len(bus) : bus[i] # Last(bus')

FailFastNoRetry == [][FailFastStep]_vars

ConfigSendFailedOnce ==
    /\ mpc = "exit1" /\ op = "read_config_zone"
    /\ Len(bus) = 5 /\ IsWrite(Last(bus)) /\ io = "ENXIO"

(***************************************************************************)
(* C23: genrate_random_number_in_range reads the first 8 bytes of the      *)
(* random payload (payload bytes 0..7, most significant first) as a 64-bit *)
(* value v and prints min + (v mod (max - min + 1)).                       *)
(***************************************************************************)
LeadingPayloadValue ==
    Add64(args.min, ModBigEndian(SubSeq(resp, 2, 9),
                                 Add64(Sub64(args.max, args.min), U64(1))))

RangeUsesLeadingBytes ==
    (op = "genrate_random_number_in_range" /\ Returned("true"))
        => Last(console) = [tag |-> "range", value |-> LeadingPayloadValue]

(***************************************************************************)
(* C24: on a response with count == 4 receive_atecc_response returns       *)
(* failure and leaves the caller's buffer as it was; a status byte of 0 is *)
(* reported as "no data returned", any other status byte as a device       *)
(* status error with that status code, and the two reports differ.         *)
(***************************************************************************)
ReceiveCalled ==
    op = "receive_atecc_response" /\ opc = "done" /\ ~(args.buffer_null \/ args.length = 0)

StatusPacketClassified ==
    (ReceiveCalled /\ Tolerated(io) /\ resp[1] = 4)
        => /\ ret = "false"
           /\ out = args.buffer
           /\ console = <<IF resp[2] = 0 THEN [tag |-> "nodata", value |-> 0]
                          ELSE [tag |-> "status", value |-> resp[2]]>>
           /\ [tag |-> "nodata", value |-> 0] # [tag |-> "status", value |-> resp[2]]

DeviceStatusReported ==
    /\ ReceiveCalled /\ io = "ok" /\ args.length = 4 /\ resp[1] = 4 /\ resp[2] = 15
    /\ ret = "false" /\ console = <<[tag |-> "status", value |-> 15]>>

(***************************************************************************)
(* C25: atecc_sleep writes exactly one byte 0x01 and reads nothing.  When  *)
(* the write fails it returns failure, main still ends with exit status 0, *)
(* and nothing main obtained from the earlier calls is changed.            *)
(***************************************************************************)
SleepStep ==
    /\ op' = "atecc_sleep" => (bus' = <<>> \/ bus' = <<Wr(<<1>>)>>)
    /\ (op = "atecc_sleep" /\ opc = "write")
          => /\ bus' = <<Wr(<<1>>)>> /\ opc' = "done"
             /\ ret' = (IF io' = "ok" THEN "true" ELSE "false")
             /\ mem' = mem
    /\ (op = "atecc_sleep" /\ opc = "done" /\ ret # "none")
          => (mpc' = "exit0" /\ mem' = mem)

SleepContract == [][SleepStep]_vars

SleepFailedExitZero ==
    mpc = "exit0" /\ op = "atecc_sleep" /\ bus = <<Wr(<<1>>)>> /\ io = "ENXIO"

(***************************************************************************)
(* C26: in every run of main in which atecc_wake succeeded the sleep byte  *)
(* is sent before the handle is closed, aborted runs included: main never  *)
(* ends while the session is Awake.                                        *)
(***************************************************************************)
SleepBeforeClose ==
    mpc \in {"exit0", "exit1"} => session # "Awake"

(***************************************************************************)
(* C27: for every 8-byte input and all 64-bit min <= max,                  *)
(* map_random_to_range yields a defined result r with min <= r <= max in   *)
(* arithmetic modulo 2^64, the range min = 0, max = 2^64 - 1 included.     *)
(***************************************************************************)
MapResultInRange ==
    (op = "map_random_to_range" /\ opc = "done")
        => /\ ret # "SIGFPE"
           /\ ~Less64(out, args.min)
           /\ ~Less64(args.max, out)

(***************************************************************************)
(* C28: for every requested length >= 1, either value of full_response and *)
(* every response, a successful receive_atecc_response copies only bytes   *)
(* it read from the bus in that call: requested length + 1 never exceeds   *)
(* the number of bytes read (at most 128), so no byte at index >= 128 of   *)
(* the response buffer is copied.                                          *)
(***************************************************************************)
CopiesOnlyBytesRead ==
    (op = "receive_atecc_response" /\ opc = "done" /\ ret = "true")
        => /\ Len(resp) <= ATECC_RESPONSE_SIZE
           /\ args.length + 1 <= Len(resp)
           /\ \A i \in 1..args.length : i + 1 <= Len(resp) /\ out[i] = resp[i + 1]

====
